---------------------------- MODULE Spec2Model ----------------------------
(***************************************************************************)
(* Model of the safetensors container tooling:                             *)
(*   safetensors/src/lib.rs        read_header, load_tensors               *)
(*   conversion-wizard/src/main.rs do_plan, do_quantize, TensorPlaner      *)
(*                                                                         *)
(* A byte is a number 0..255, a Rust String or byte slice is a sequence of *)
(* bytes.  Four specifications share the variables:                        *)
(*   SpecPlaner    TensorPlaner::plan_write called with any arguments      *)
(*   SpecPlan      the catalog loop of do_plan                             *)
(*   SpecQuantize  do_quantize, then the written file read back            *)
(*   SpecLoad      read_header and load_tensors on untrusted bytes         *)
(***************************************************************************)
EXTENDS Integers, Sequences, FiniteSets, TLC

VARIABLES
    pc,           \* position of the running command
    build,        \* "debug" (overflow checks on) or "release" (wrapping)
    free_offset,  \* TensorPlaner.free_offset
    tensors,      \* TensorPlaner.tensors: <<[leading_padding, data]>>
    returned,     \* what each plan_write call was given and returned
    population,   \* the input container's tensors: name -> [dtype, shape, data]
    todo,         \* names the running loop has not visited yet
    catalog,      \* do_plan's map QuantizeKey -> QuantizeInfo
    plan,         \* do_quantize's QuantizePlan: [metadata, catalog]
    out,          \* do_quantize's header map `out`
    err,          \* the error the command ended with, "" if none
    header,       \* do_quantize's `header` byte vector
    file,         \* the output file: [created, bytes]
    sample,       \* what the input byte stream of read_header was made of
    stream,       \* the bytes behind the reader
    reader_pos,   \* how many bytes the reader has given out
    hdr,          \* read_header's result
    key_order,    \* iteration order of the parsed header's top-level map
    loadedSOF,    \* load_tensors(.., StartOfFile) result
    loadedAH      \* load_tensors(.., AfterHeader) result

vars == <<pc, build, free_offset, tensors, returned, population, todo, catalog,
          plan, out, err, header, file, sample, stream, reader_pos, hdr,
          key_order, loadedSOF, loadedAH>>

planerVars == <<free_offset, tensors, returned>>
planVars == <<population, todo, catalog>>
quantVars == <<plan, out, err, header, file>>
loadVars == <<sample, stream, reader_pos, hdr, key_order, loadedSOF, loadedAH>>

-----------------------------------------------------------------------------
(* Bounds of the model.                                                    *)

MaxCalls == 3
MaxAlign == 4
MaxDataLen == 2
MaxTensors == 3
\* Width of usize in bits.  Rust's usize is 16, 32 or 64 bits wide; offsets
\* are added in usize, and the model takes a narrow word.
UsizeBits == 16
\* Most entries of an untrusted header, and bytes of its data region.
MaxMembers == 2
PayloadLen == 4

-----------------------------------------------------------------------------
(* Bytes and strings.                                                      *)

Ch == [lbrace |-> 123, rbrace |-> 125, lbrack |-> 91, rbrack |-> 93,
       quote |-> 34, colon |-> 58, comma |-> 44, space |-> 32, tab |-> 9,
       lf |-> 10, cr |-> 13, zero |-> 48, nine |-> 57, minus |-> 45,
       plus |-> 43, dot |-> 46, e |-> 101, E |-> 69, underscore |-> 95,
       backslash |-> 92, nul |-> 0, n |-> 110, t |-> 116, f |-> 102]

S == [dtype |-> <<100,116,121,112,101>>,
      shape |-> <<115,104,97,112,101>>,
      data_offsets |-> <<100,97,116,97,95,111,102,102,115,101,116,115>>,
      offsets |-> <<111,102,102,115,101,116,115>>,
      metadata |-> <<95,95,109,101,116,97,100,97,116,97,95,95>>,
      F32 |-> <<70,51,50>>, F16 |-> <<70,49,54>>, U8 |-> <<85,56>>,
      q4_0 |-> <<113,52,95,48>>, q4_1 |-> <<113,52,95,49>>,
      q5_0 |-> <<113,53,95,48>>, q5_1 |-> <<113,53,95,49>>,
      q8_0 |-> <<113,56,95,48>>,
      ull |-> <<117,108,108>>, rue |-> <<114,117,101>>,
      alse |-> <<97,108,115,101>>,
      a |-> <<97>>, bc |-> <<98,99>>, um |-> <<95,109>>,
      k |-> <<107>>, v |-> <<118>>]

Zeros(n) == [i \in 1..n |-> 0]

RECURSIVE Product(_)
Product(shape) ==
    IF shape = <<>> THEN 1 ELSE Head(shape) * Product(Tail(shape))

-----------------------------------------------------------------------------
(* main.rs: next_multiple_of and TensorPlaner.                             *)

next_multiple_of_down(lhs, multiple) ==
    lhs - (lhs % multiple)

next_multiple_of(lhs, multiple) ==
    IF lhs % multiple = 0
    THEN lhs
    ELSE lhs + (multiple - (lhs % multiple))

\* TensorPlaner::plan_write; `returned` keeps the call and its (start, end).
plan_write(alignment, data) ==
    LET start == next_multiple_of(free_offset, alignment)
        padding == start - free_offset
        end == start + Len(data)
    IN  /\ tensors' = Append(tensors, [leading_padding |-> padding, data |-> data])
        /\ free_offset' = end
        /\ returned' = Append(returned,
               [alignment |-> alignment, data |-> data, start |-> start, end |-> end])

write_tensor_bytes_padding_last(a) == a.data \o Zeros(a.leading_padding)

\* One iteration of do_quantize's final loop: the bytes written for an entry.
write_tensor_bytes(a) == Zeros(a.leading_padding) \o a.data

\* The whole data region: the loop over write_plan.tensors.
RECURSIVE DataRegion(_)
DataRegion(ts) ==
    IF ts = <<>> THEN <<>>
    ELSE write_tensor_bytes(Head(ts)) \o DataRegion(Tail(ts))

PlanerInit ==
    /\ free_offset = 0
    /\ tensors = <<>>
    /\ returned = <<>>

IdleInit ==
    /\ pc = "idle"
    /\ build = "release"

NoPlanInit ==
    /\ population = <<>>
    /\ todo = {}
    /\ catalog = <<>>

NoQuantInit ==
    /\ plan = <<>>
    /\ out = <<>>
    /\ err = ""
    /\ header = <<>>
    /\ file = [created |-> FALSE, bytes |-> <<>>, entries |-> 0]

NoLoadInit ==
    /\ sample = <<>>
    /\ stream = <<>>
    /\ reader_pos = 0
    /\ hdr = [ok |-> FALSE, data |-> <<>>, offset_end_of_header |-> 0]
    /\ key_order = <<>>
    /\ loadedSOF = [status |-> "none"]
    /\ loadedAH = [status |-> "none"]

InitPlaner == IdleInit /\ PlanerInit /\ NoPlanInit /\ NoQuantInit /\ NoLoadInit

\* A caller submits the next tensor: any alignment >= 1, data of any length.
\* The bytes of the k-th submitted tensor are all k, so that they differ from
\* the zero bytes of the padding.
PlanerCall ==
    /\ Len(tensors) < MaxCalls
    /\ \E alignment \in 1..MaxAlign, len \in 0..MaxDataLen :
          plan_write(alignment, [i \in 1..len |-> Len(tensors) + 1])
    /\ UNCHANGED <<pc, build, planVars, quantVars, loadVars>>

NextPlaner == PlanerCall

SpecPlaner == InitPlaner /\ [][NextPlaner]_vars

-----------------------------------------------------------------------------
(* Claims about the planner.                                               *)

PrevEnd(k) == IF k = 1 THEN 0 ELSE returned[k - 1].end

RangesOverlap(r1, r2) ==
    \E b \in r1.start .. (r1.end - 1) : b \in r2.start .. (r2.end - 1)

\* C1: every (start, end) a plan_write call returned has start a multiple of
\* the call's alignment, start at or after the previous call's end (0 for
\* the first call), and the byte ranges [start, end) of two different calls
\* share no byte.
C1_AlignedOrderedDisjoint ==
    \A k \in 1..Len(returned) :
        /\ returned[k].start % returned[k].alignment = 0
        /\ returned[k].start >= PrevEnd(k)
        /\ \A j \in 1..Len(returned) :
              j # k => ~RangesOverlap(returned[j], returned[k])

\* A run where padding was needed, an empty tensor was planned, and a
\* non-empty tensor was planned after another non-empty one.
C1_Witness ==
    /\ Len(returned) = MaxCalls
    /\ \E k \in 2..Len(returned) :
          /\ returned[k].start > PrevEnd(k)
          /\ returned[k].end > returned[k].start
          /\ returned[k - 1].end > returned[k - 1].start
    /\ \E k \in 1..Len(returned) : returned[k].end = returned[k].start

RECURSIVE SumEntries(_)
SumEntries(ts) ==
    IF ts = <<>> THEN 0
    ELSE Head(ts).leading_padding + Len(Head(ts).data) + SumEntries(Tail(ts))

\* C10: the recorded entries are the submitted data in submission order,
\* each leading_padding is smaller than the alignment and start is the
\* smallest multiple of the alignment at or after the previous free_offset,
\* free_offset is the sum of padding and data lengths, and in the bytes the
\* serializer writes for the data region the k-th data occupies exactly
\* [start_k, end_k); the first tensor starts at 0.
C10_LayoutMatchesBytes ==
    /\ Len(tensors) = Len(returned)
    /\ free_offset = SumEntries(tensors)
    /\ Len(DataRegion(tensors)) = free_offset
    /\ \A k \in 1..Len(returned) :
          LET r == returned[k] IN
          /\ tensors[k].data = r.data
          /\ tensors[k].leading_padding = r.start - PrevEnd(k)
          /\ tensors[k].leading_padding < r.alignment
          /\ r.start % r.alignment = 0
          /\ \A m \in PrevEnd(k)..r.start : m % r.alignment = 0 => m = r.start
          /\ r.end = r.start + Len(r.data)
          /\ SubSeq(DataRegion(tensors), r.start + 1, r.end) = r.data
          /\ \A b \in (PrevEnd(k) + 1)..r.start : DataRegion(tensors)[b] = 0
          /\ k = 1 => r.start = 0

\* A run whose last tensor is non-empty and sits behind padding.
C10_Witness ==
    /\ Len(returned) = MaxCalls
    /\ tensors[MaxCalls].leading_padding > 0
    /\ Len(tensors[MaxCalls].data) > 0
    /\ tensors[1].data # <<>>

-----------------------------------------------------------------------------
(* The input container as the safetensors crate hands it over: each tensor *)
(* has a Dtype, a shape and a byte view.                                   *)

\* util::dtype_str: the tag of a Dtype.
dtype_str(dtype) ==
    CASE dtype = "F32" -> S.F32
      [] dtype = "F16" -> S.F16
      [] dtype = "U8" -> S.U8

\* Dtype::size(), read at main.rs `dtype.size()`: bytes per element.
dtype_size(dtype) ==
    CASE dtype = "F32" -> 4
      [] dtype = "F16" -> 2
      [] dtype = "U8" -> 1

Tensor(dtype, shape, len, fill) ==
    [dtype |-> dtype, shape |-> shape, data |-> [i \in 1..len |-> fill]]

\* Whether a view's byte length is the one its dtype and shape call for.
WellFormed(t) == Len(t.data) = Product(t.shape) * dtype_size(t.dtype)

\* The tensors an input may hold.  The last one has a byte too many: the
\* code re-checks the length before quantizing.
InputTensors ==
    { Tensor("F32", <<1>>, 4, 171), Tensor("F32", <<2>>, 8, 205),
      Tensor("F32", <<1, 1>>, 4, 239), Tensor("U8", <<1>>, 1, 17),
      Tensor("F16", <<1>>, 2, 34), Tensor("F32", <<2>>, 9, 51) }

\* The i-th tensor name: "a", "b", "c", ...
TensorName(i) == <<96 + i>>

Option(x) == [some |-> TRUE, val |-> x]
None == [some |-> FALSE, val |-> <<>>]

\* Container-level metadata: absent, or {"k": "v"}.
Metadatas == {None, Option(S.k :> S.v)}

Populations(names) ==
    UNION { [ns -> InputTensors] : ns \in SUBSET names }

-----------------------------------------------------------------------------
(* main.rs: do_plan.                                                       *)

QuantizeKey_ignoring_dtype(t) == [dtype |-> S.F32, shape |-> t.shape]

\* The QuantizeKey built for a tensor.
QuantizeKey(t) == [dtype |-> dtype_str(t.dtype), shape |-> t.shape]

\* QuantizeInfo::default()
DefaultQuantizeInfo == [count |-> 0, treatment |-> "keep"]

MapInsert(m, k, v) ==
    [x \in DOMAIN m \cup {k} |-> IF x = k THEN v ELSE m[x]]

InitPlan ==
    /\ pc = "plan_loop"
    /\ build = "release"
    /\ population \in Populations({TensorName(i) : i \in 1..MaxTensors})
    /\ todo = DOMAIN population
    /\ catalog = <<>>
    /\ PlanerInit /\ NoLoadInit
    /\ \E m \in Metadatas : plan = [metadata |-> m, catalog |-> <<>>]
    /\ out = <<>> /\ err = "" /\ header = <<>>
    /\ file = [created |-> FALSE, bytes |-> <<>>, entries |-> 0]

\* One iteration of `for (_tensor_name, tensor_info) in header.tensors()`;
\* the order of the iteration is whatever the container gives.
do_plan_visit ==
    /\ pc = "plan_loop"
    /\ \E name \in todo :
          LET k == QuantizeKey(population[name])
              info == IF k \in DOMAIN catalog THEN catalog[k]
                      ELSE DefaultQuantizeInfo
          IN  /\ catalog' = MapInsert(catalog, k,
                                [info EXCEPT !.count = info.count + 1])
              /\ todo' = todo \ {name}
    /\ UNCHANGED <<pc, build, population, planerVars, quantVars, loadVars>>

\* After the loop: the plan document is written with the catalog.
do_plan_write ==
    /\ pc = "plan_loop"
    /\ todo = {}
    /\ pc' = "plan_done"
    /\ plan' = [plan EXCEPT !.catalog = catalog]
    /\ UNCHANGED <<build, planVars, planerVars, out, err, header, file, loadVars>>

NextPlan == do_plan_visit \/ do_plan_write

SpecPlan == InitPlan /\ [][NextPlan]_vars

-----------------------------------------------------------------------------
(* Claim about the catalog.                                                *)

Visited == DOMAIN population \ todo

\* Tensors among `names` with exactly this dtype tag and shape.
ClassMembers(names, k) ==
    { n \in names : /\ dtype_str(population[n].dtype) = k.dtype
                    /\ population[n].shape = k.shape }

RECURSIVE SumCounts(_, _)
SumCounts(c, keys) ==
    IF keys = {} THEN 0
    ELSE LET k == CHOOSE x \in keys : TRUE
         IN  c[k].count + SumCounts(c, keys \ {k})

\* C7: the catalog maps each (dtype, shape) key to the number of tensors
\* with exactly that dtype and shape, has no key of count 0, gives every
\* entry the treatment keep; it depends on neither the order of iteration
\* nor the names (it is a function of how many tensors each class has), and
\* the counts sum to the number of tensors.  Stated for every prefix of the
\* loop and for the plan written at the end.
C7_CatalogCounts ==
    /\ pc \in {"plan_loop", "plan_done"} =>
          /\ \A k \in DOMAIN catalog :
                /\ catalog[k].count = Cardinality(ClassMembers(Visited, k))
                /\ catalog[k].count >= 1
                /\ catalog[k].treatment = "keep"
          /\ \A n \in Visited :
                \E k \in DOMAIN catalog : n \in ClassMembers(Visited, k)
          /\ SumCounts(catalog, DOMAIN catalog) = Cardinality(Visited)
    /\ pc = "plan_done" =>
          /\ Visited = DOMAIN population
          /\ plan.catalog = catalog

\* A finished plan with a class of two tensors and a second class that
\* differs from it in the dtype only.
C7_Witness ==
    /\ pc = "plan_done"
    /\ \E k1, k2 \in DOMAIN plan.catalog :
          /\ k1.shape = k2.shape /\ k1.dtype # k2.dtype
          /\ plan.catalog[k1].count = 2

-----------------------------------------------------------------------------
(* serde_json::Value.  Every value is a record of the same shape; a map is *)
(* a function from keys (strings) to values, so a key occurs once.         *)

JNull == [t |-> "null", n |-> 0, s |-> <<>>, a |-> <<>>, m |-> <<>>]
JBool(b) == [t |-> "bool", n |-> IF b THEN 1 ELSE 0, s |-> <<>>, a |-> <<>>, m |-> <<>>]
JNum(x) == [t |-> "num", n |-> x, s |-> <<>>, a |-> <<>>, m |-> <<>>]
\* A number with a fraction or an exponent; the model keeps its text.
JFloat(text) == [t |-> "float", n |-> 0, s |-> text, a |-> <<>>, m |-> <<>>]
JStr(str) == [t |-> "str", n |-> 0, s |-> str, a |-> <<>>, m |-> <<>>]
JArr(elems) == [t |-> "arr", n |-> 0, s |-> <<>>, a |-> elems, m |-> <<>>]
JObj(map) == [t |-> "obj", n |-> 0, s |-> <<>>, a |-> <<>>, m |-> map]

RECURSIVE DecText(_)
\* Decimal text of a non-negative integer.
DecText(x) ==
    IF x < 10 THEN <<Ch.zero + x>>
    ELSE DecText(x \div 10) \o <<Ch.zero + (x % 10)>>

RECURSIVE LexLess(_, _)
\* Byte-wise order of strings: the order of a BTreeMap<String, _>.
LexLess(x, y) ==
    IF y = <<>> THEN FALSE
    ELSE IF x = <<>> THEN TRUE
    ELSE IF Head(x) # Head(y) THEN Head(x) < Head(y)
    ELSE LexLess(Tail(x), Tail(y))

RECURSIVE SortedKeys(_)
SortedKeys(keys) ==
    IF keys = {} THEN <<>>
    ELSE LET first == CHOOSE x \in keys : \A y \in keys \ {x} : LexLess(x, y)
         IN  <<first>> \o SortedKeys(keys \ {first})

Quoted(str) == <<Ch.quote>> \o str \o <<Ch.quote>>

RECURSIVE ToJson(_), JoinElems(_), JoinMembers(_, _)
\* serde_json::to_vec: compact text, a map's keys in the map's order.
\* The strings of the model hold no byte that needs escaping.
ToJson(v) ==
    CASE v.t = "null" -> <<Ch.n>> \o S.ull
      [] v.t = "bool" -> IF v.n = 1 THEN <<Ch.t>> \o S.rue ELSE <<Ch.f>> \o S.alse
      [] v.t = "num" -> DecText(v.n)
      [] v.t = "float" -> v.s
      [] v.t = "str" -> Quoted(v.s)
      [] v.t = "arr" -> <<Ch.lbrack>> \o JoinElems(v.a) \o <<Ch.rbrack>>
      [] v.t = "obj" ->
            <<Ch.lbrace>> \o JoinMembers(v.m, SortedKeys(DOMAIN v.m)) \o <<Ch.rbrace>>

JoinElems(elems) ==
    IF elems = <<>> THEN <<>>
    ELSE ToJson(Head(elems))
         \o (IF Len(elems) > 1 THEN <<Ch.comma>> ELSE <<>>)
         \o JoinElems(Tail(elems))

JoinMembers(map, keys) ==
    IF keys = <<>> THEN <<>>
    ELSE Quoted(Head(keys)) \o <<Ch.colon>> \o ToJson(map[Head(keys)])
         \o (IF Len(keys) > 1 THEN <<Ch.comma>> ELSE <<>>)
         \o JoinMembers(map, Tail(keys))

-----------------------------------------------------------------------------
(* serde_json's Deserializer over a byte slice, as read_header uses it:    *)
(* one value is read from the front of the slice and what follows it is    *)
(* not looked at (read_header never calls Deserializer::end).  Modelled:   *)
(* whitespace, null/true/false, numbers, strings without escapes, arrays,  *)
(* objects.  Not modelled: string escapes and the nesting limit of 128.    *)

ParseFail == [ok |-> FALSE, v |-> JNull, i |-> 0]
ParseOk(v, i) == [ok |-> TRUE, v |-> v, i |-> i]

\* The byte at position i, -1 past the end.
At(s, i) == IF i >= 1 /\ i <= Len(s) THEN s[i] ELSE -1

IsDigit(b) == b >= Ch.zero /\ b <= Ch.nine
IsWhitespace(b) == b \in {Ch.space, Ch.lf, Ch.tab, Ch.cr}

RECURSIVE SkipWs(_, _)
\* parse_whitespace
SkipWs(s, i) == IF IsWhitespace(At(s, i)) THEN SkipWs(s, i + 1) ELSE i

RECURSIVE SkipDigits(_, _)
SkipDigits(s, i) == IF IsDigit(At(s, i)) THEN SkipDigits(s, i + 1) ELSE i

RECURSIVE DigitsValue(_, _, _, _)
DigitsValue(s, i, j, acc) ==
    IF i >= j THEN acc
    ELSE DigitsValue(s, i + 1, j, acc * 10 + (s[i] - Ch.zero))

\* parse_ident: the bytes of `rest` must follow.
ParseIdent(s, i, rest, v) ==
    IF i + Len(rest) - 1 <= Len(s) /\ SubSeq(s, i, i + Len(rest) - 1) = rest
    THEN ParseOk(v, i + Len(rest))
    ELSE ParseFail

\* parse_exponent, from the byte after 'e' or 'E'; `from` is where the
\* number began.
ParseExponent(s, from, i) ==
    LET j == IF At(s, i) \in {Ch.plus, Ch.minus} THEN i + 1 ELSE i
        k == SkipDigits(s, j)
    IN  IF k = j THEN ParseFail
        ELSE ParseOk(JFloat(SubSeq(s, from, k - 1)), k)

\* parse_decimal, from the byte after '.'.
ParseDecimal(s, from, i) ==
    LET k == SkipDigits(s, i)
    IN  IF k = i THEN ParseFail
        ELSE IF At(s, k) \in {Ch.e, Ch.E} THEN ParseExponent(s, from, k + 1)
        ELSE ParseOk(JFloat(SubSeq(s, from, k - 1)), k)

\* parse_any_number / parse_integer, from the first digit; `from` is where
\* the number (its sign) began.
ParseNumber(s, from, i, positive) ==
    LET k == SkipDigits(s, i)
    IN  IF k = i THEN ParseFail
        ELSE IF At(s, i) = Ch.zero /\ k > i + 1 THEN ParseFail
        ELSE IF At(s, k) = Ch.dot THEN ParseDecimal(s, from, k + 1)
        ELSE IF At(s, k) \in {Ch.e, Ch.E} THEN ParseExponent(s, from, k + 1)
        ELSE ParseOk(JNum(IF positive THEN DigitsValue(s, i, k, 0)
                          ELSE 0 - DigitsValue(s, i, k, 0)), k)

RECURSIVE ScanString(_, _)
\* parse_str without escapes, from the byte after the opening quote: the
\* position of the closing quote, 0 when the string is malformed (end of
\* input, a control character) or holds an escape.
ScanString(s, i) ==
    LET b == At(s, i)
    IN  IF b = Ch.quote THEN i
        ELSE IF b < Ch.space \/ b = Ch.backslash THEN 0
        ELSE ScanString(s, i + 1)

RECURSIVE ParseValue(_, _), ParseElements(_, _, _), ParseMembers(_, _, _)
\* Deserializer::deserialize_any building a Value.
ParseValue(s, i) ==
    LET j == SkipWs(s, i)
        b == At(s, j)
    IN  CASE b = Ch.n -> ParseIdent(s, j + 1, S.ull, JNull)
          [] b = Ch.t -> ParseIdent(s, j + 1, S.rue, JBool(TRUE))
          [] b = Ch.f -> ParseIdent(s, j + 1, S.alse, JBool(FALSE))
          [] b = Ch.minus -> ParseNumber(s, j, j + 1, FALSE)
          [] IsDigit(b) -> ParseNumber(s, j, j, TRUE)
          [] b = Ch.quote ->
                LET q == ScanString(s, j + 1)
                IN  IF q = 0 THEN ParseFail
                    ELSE ParseOk(JStr(SubSeq(s, j + 1, q - 1)), q + 1)
          [] b = Ch.lbrack ->
                IF At(s, SkipWs(s, j + 1)) = Ch.rbrack
                THEN ParseOk(JArr(<<>>), SkipWs(s, j + 1) + 1)
                ELSE ParseElements(s, j + 1, <<>>)
          [] b = Ch.lbrace ->
                IF At(s, SkipWs(s, j + 1)) = Ch.rbrace
                THEN ParseOk(JObj(<<>>), SkipWs(s, j + 1) + 1)
                ELSE ParseMembers(s, j + 1, <<>>)
          [] OTHER -> ParseFail

\* SeqAccess: an element is due at i.
ParseElements(s, i, acc) ==
    LET r == ParseValue(s, i)
        j == SkipWs(s, r.i)
    IN  IF ~r.ok THEN ParseFail
        ELSE IF At(s, j) = Ch.comma THEN ParseElements(s, j + 1, Append(acc, r.v))
        ELSE IF At(s, j) = Ch.rbrack THEN ParseOk(JArr(Append(acc, r.v)), j + 1)
        ELSE ParseFail

\* MapAccess: a key is due at i.  Map::insert replaces the value of a key
\* that is already there.
ParseMembers(s, i, map) ==
    LET j == SkipWs(s, i)
        q == IF At(s, j) = Ch.quote THEN ScanString(s, j + 1) ELSE 0
        key == SubSeq(s, j + 1, q - 1)
        c == SkipWs(s, q + 1)
        r == ParseValue(s, c + 1)
        d == SkipWs(s, r.i)
    IN  IF q = 0 \/ At(s, c) # Ch.colon THEN ParseFail
        ELSE IF ~r.ok THEN ParseFail
        ELSE IF At(s, d) = Ch.comma
             THEN ParseMembers(s, d + 1, MapInsert(map, key, r.v))
        ELSE IF At(s, d) = Ch.rbrace
             THEN ParseOk(JObj(MapInsert(map, key, r.v)), d + 1)
        ELSE ParseFail

-----------------------------------------------------------------------------
(* lib.rs: read_header.                                                    *)

UsizeMod == 2 ^ UsizeBits

RECURSIVE to_le_bytes_n(_, _)
to_le_bytes_n(x, count) ==
    IF count = 0 THEN <<>>
    ELSE <<x % 256>> \o to_le_bytes_n(x \div 256, count - 1)

\* u64::to_le_bytes
to_le_bytes(x) == to_le_bytes_n(x, 8)

RECURSIVE from_le_bytes(_)
\* u64::from_le_bytes
from_le_bytes(bytes) ==
    IF bytes = <<>> THEN 0
    ELSE Head(bytes) + 256 * from_le_bytes(Tail(bytes))

HeaderError == [ok |-> FALSE, data |-> JNull, offset_end_of_header |-> 0]

\* read_header as it would be with serde_json::from_slice, which rejects
\* anything but whitespace after the value.
read_header_from_slice(bytes) ==
    IF Len(bytes) < 8 THEN HeaderError
    ELSE LET header_len == from_le_bytes(SubSeq(bytes, 1, 8))
             header_raw == SubSeq(bytes, 9, 8 + header_len)
             parsed == ParseValue(header_raw, 1)
         IN  IF Len(bytes) - 8 < header_len THEN HeaderError
             ELSE IF ~parsed.ok THEN HeaderError
             ELSE IF SkipWs(header_raw, parsed.i) <= Len(header_raw) THEN HeaderError
             ELSE [ok |-> TRUE, data |-> parsed.v,
                   offset_end_of_header |-> header_len + 8]

\* read_header over a reader that holds `bytes`: either read_exact fails
\* when the reader runs dry, the JSON error is passed on, or the value at
\* the front of the header region is returned.
read_header(bytes) ==
    IF Len(bytes) < 8 THEN HeaderError
    ELSE LET header_len == from_le_bytes(SubSeq(bytes, 1, 8))
             header_raw == SubSeq(bytes, 9, 8 + header_len)
             parsed == ParseValue(header_raw, 1)
         IN  IF Len(bytes) - 8 < header_len THEN HeaderError
             ELSE IF ~parsed.ok THEN HeaderError
             ELSE [ok |-> TRUE, data |-> parsed.v,
                   offset_end_of_header |-> header_len + 8]

\* How far the reader has moved after read_header: 8 + header_len once both
\* read_exact calls succeeded; after a failed read_exact the position is
\* not specified.
reader_positions(bytes) ==
    IF Len(bytes) >= 8 /\ Len(bytes) - 8 >= from_le_bytes(SubSeq(bytes, 1, 8))
    THEN {8 + from_le_bytes(SubSeq(bytes, 1, 8))}
    ELSE 0..Len(bytes)

-----------------------------------------------------------------------------
(* lib.rs: load_tensors.                                                   *)

\* Deserialize of String, usize, Vec<usize> and (usize, usize) from a Value.
IsString(v) == v.t = "str"
IsUsize(v) == v.t = "num" /\ v.n >= 0 /\ v.n < UsizeMod
IsUsizeVec(v) == v.t = "arr" /\ \A i \in 1..Len(v.a) : IsUsize(v.a[i])
IsUsizePair(v) == IsUsizeVec(v) /\ Len(v.a) = 2

HasField(info, name) == name \in DOMAIN info.m

NoError == [kind |-> "", name |-> <<>>, offsets |-> <<0, 0>>]
LoadError(kind, name, offsets) ==
    [status |-> "err", tensors |-> <<>>,
     error |-> [kind |-> kind, name |-> name, offsets |-> offsets]]
LoadPanic == [status |-> "panic", tensors |-> <<>>, error |-> NoError]
LoadOk(result) == [status |-> "ok", tensors |-> result, error |-> NoError]

\* The match on slice_start_where.
global_offset(h, slice_start_where) ==
    IF slice_start_where = "StartOfFile" THEN h.offset_end_of_header ELSE 0

\* slice.get(start + global_offset .. end + global_offset): the sums are
\* usize additions, which panic on overflow in a build with overflow checks
\* and wrap in a build without.  The view is [from, to) of the slice.
slice_get(slice, start, end, g, bld) ==
    LET lo == start + g
        hi == end + g
        from == lo % UsizeMod
        to == hi % UsizeMod
    IN  IF (lo >= UsizeMod \/ hi >= UsizeMod) /\ bld = "debug"
        THEN [outcome |-> "panic", from |-> 0, to |-> 0]
        ELSE IF from <= to /\ to <= Len(slice)
        THEN [outcome |-> "some", from |-> from, to |-> to]
        ELSE [outcome |-> "none", from |-> 0, to |-> 0]

RECURSIVE load_loop(_, _, _, _, _, _)
\* The body of `for (tensor_name, tensor_info_raw) in tensor_map`, over the
\* keys still to come.
load_loop(tensor_map, order, result, slice, g, bld) ==
    IF order = <<>> THEN LoadOk(result)
    ELSE
    LET tensor_name == Head(order)
        info == tensor_map[tensor_name]
        offs == <<info.m[S.data_offsets].a[1].n, info.m[S.data_offsets].a[2].n>>
        got == slice_get(slice, offs[1], offs[2], g, bld)
    IN  IF tensor_name # <<>> /\ Head(tensor_name) = Ch.underscore
        THEN load_loop(tensor_map, Tail(order), result, slice, g, bld)
        ELSE IF info.t # "obj"
        THEN LoadError("InvalidHeader", tensor_name, <<0, 0>>)
        ELSE IF ~(HasField(info, S.dtype) /\ IsString(info.m[S.dtype]))
        THEN LoadError("InvalidHeader", tensor_name, <<0, 0>>)
        ELSE IF ~(HasField(info, S.shape) /\ IsUsizeVec(info.m[S.shape]))
        THEN LoadError("InvalidHeader", tensor_name, <<0, 0>>)
        ELSE IF ~(HasField(info, S.data_offsets)
                  /\ IsUsizePair(info.m[S.data_offsets]))
        THEN LoadError("InvalidHeader", tensor_name, <<0, 0>>)
        ELSE IF got.outcome = "panic" THEN LoadPanic
        ELSE IF got.outcome = "none"
        THEN LoadError("OffsetsOutOfBounds", tensor_name, offs)
        ELSE IF tensor_name \in DOMAIN result
        THEN LoadError("DuplicateTensorName", tensor_name, <<0, 0>>)
        ELSE load_loop(tensor_map, Tail(order),
                 MapInsert(result, tensor_name,
                     [dtype |-> info.m[S.dtype].s,
                      shape |-> [i \in 1..Len(info.m[S.shape].a) |->
                                    info.m[S.shape].a[i].n],
                      data |-> SubSeq(slice, got.from + 1, got.to),
                      from |-> got.from, to |-> got.to]),
                 slice, g, bld)

\* load_tensors; `order` is the order in which the header's map iterates.
load_tensors(h, order, slice, slice_start_where, bld) ==
    IF h.data.t # "obj" THEN LoadError("InvalidHeader", <<>>, <<0, 0>>)
    ELSE load_loop(h.data.m, order, <<>>, slice,
                   global_offset(h, slice_start_where), bld)

-----------------------------------------------------------------------------
(* Untrusted input of read_header and load_tensors: a length prefix, a     *)
(* header region (a JSON text, then bytes that are not part of it) and the *)
(* data region.  An offset of a tensor entry is either a small number or   *)
(* lies `d` above UsizeMod - offset_end_of_header, where the sum with the  *)
(* header's end leaves the machine word.                                   *)

Plain(d) == [wrap |-> FALSE, d |-> d]
Wrap(d) == [wrap |-> TRUE, d |-> d]

OffsetValue(o, g) == IF o.wrap THEN UsizeMod - g + o.d ELSE o.d

OffsetPairs ==
    { <<Plain(0), Plain(PayloadLen)>>, <<Plain(0), Plain(0)>>,
      <<Plain(2), Plain(PayloadLen)>>, <<Plain(0), Plain(PayloadLen + 1)>>,
      <<Plain(3), Plain(1)>>, <<Wrap(0), Wrap(2)>>, <<Plain(1), Wrap(0)>>,
      <<Wrap(0 - 1), Wrap(0)>> }

EntryKinds ==
    [k : {"tensor"}, off : OffsetPairs]
    \cup [k : {"notobject", "nodtype", "badshape", "tripleoffsets", "hugeoffset"},
          off : {<<Plain(0), Plain(0)>>}]

TensorEntry(dtype, shape, offsets) ==
    JObj((S.dtype :> dtype) @@ (S.shape :> shape) @@ (S.data_offsets :> offsets))

\* The JSON value of a header entry, the header ending at g.
EntryValue(e, g) ==
    LET offs == JArr(<<JNum(OffsetValue(e.off[1], g)), JNum(OffsetValue(e.off[2], g))>>)
        shape == JArr(<<JNum(1)>>)
    IN  CASE e.k = "tensor" -> TensorEntry(JStr(S.F32), shape, offs)
          [] e.k = "notobject" -> JNum(1)
          [] e.k = "nodtype" -> JObj((S.shape :> shape) @@ (S.data_offsets :> offs))
          [] e.k = "badshape" -> TensorEntry(JStr(S.F32), JStr(S.v), offs)
          [] e.k = "tripleoffsets" ->
                TensorEntry(JStr(S.F32), shape, JArr(<<JNum(0), JNum(1), JNum(2)>>))
          [] e.k = "hugeoffset" ->
                TensorEntry(JStr(S.F32), shape, JArr(<<JNum(0), JNum(UsizeMod)>>))

RECURSIVE MembersText(_, _)
MembersText(members, g) ==
    IF members = <<>> THEN <<>>
    ELSE Quoted(Head(members).name) \o <<Ch.colon>>
         \o ToJson(EntryValue(Head(members).entry, g))
         \o (IF Len(members) > 1 THEN <<Ch.comma>> ELSE <<>>)
         \o MembersText(Tail(members), g)

\* The text of a header object with these members, in this order; a name
\* may occur twice.
ObjectText(members, g) ==
    <<Ch.lbrace>> \o MembersText(members, g) \o <<Ch.rbrace>>

EntryNames == {TensorName(1), TensorName(2), S.um}

MemberLists ==
    UNION { [1..n -> [name : EntryNames, entry : EntryKinds]] : n \in 0..MaxMembers }

Payload == [i \in 1..PayloadLen |-> 200 + i]

\* Headers with tensor entries, followed by nothing or by spaces.
TensorSamples ==
    { [members |-> ms, garbage |-> gb, payload |-> Payload, short |-> FALSE,
       text |-> ObjectText(ms, 8 + Len(ObjectText(ms, 1000)) + Len(gb))] :
         ms \in MemberLists, gb \in {<<>>, <<Ch.space, Ch.space, Ch.space>>} }

\* JSON texts (and, with <<>>, no text) followed by bytes of any kind.
Texts ==
    { <<>>, <<Ch.lbrace, Ch.rbrace>>, <<Ch.space, Ch.lbrace, Ch.space, Ch.rbrace>>,
      <<Ch.zero + 1>>, <<Ch.zero>>, <<Ch.minus, Ch.zero + 1>>,
      <<Ch.zero + 1, Ch.dot, Ch.zero + 5>>, Quoted(S.a),
      <<Ch.lbrack, Ch.zero + 1, Ch.rbrack>>, <<Ch.t>> \o S.rue, <<Ch.n>> \o S.ull,
      ObjectText(<<[name |-> S.a, entry |-> [k |-> "notobject"]]>>, 0) }

Garbages ==
    { <<>>, <<Ch.space, Ch.space, Ch.space>>, <<Ch.nul, Ch.nul, Ch.nul>>,
      <<Ch.zero + 2>>, <<Ch.e>>, <<Ch.dot>>, <<Ch.rbrace, Ch.quote>>,
      <<Ch.comma, Ch.lbrace>> }

TrailingSamples ==
    [members : {<<>>}, garbage : Garbages, payload : {<<>>, <<7>>},
     short : BOOLEAN, text : Texts]

\* The bytes of the file: the prefix says how long the header region is, or
\* (short) one more than the bytes that follow.
SampleBytes(x) ==
    LET region == x.text \o x.garbage
        declared == IF x.short THEN Len(region) + Len(x.payload) + 1
                    ELSE Len(region)
    IN  to_le_bytes(declared) \o region \o x.payload

Perms(keys) ==
    { f \in [1..Cardinality(keys) -> keys] :
        \A i, j \in 1..Cardinality(keys) : i # j => f[i] # f[j] }

InitLoadFrom(samples) ==
    /\ pc = "read"
    /\ build \in {"debug", "release"}
    /\ sample \in samples
    /\ stream = SampleBytes(sample)
    /\ reader_pos = 0
    /\ hdr = HeaderError
    /\ key_order = <<>>
    /\ loadedSOF = [status |-> "none"]
    /\ loadedAH = [status |-> "none"]
    /\ PlanerInit /\ NoPlanInit /\ NoQuantInit

\* let header = read_header(&mut reader)
ReadHeader ==
    /\ pc = "read"
    /\ hdr' = read_header(stream)
    /\ reader_pos' \in reader_positions(stream)
    /\ pc' = IF hdr'.ok THEN "load" ELSE "failed"
    /\ key_order' \in (IF hdr'.ok /\ hdr'.data.t = "obj"
                       THEN Perms(DOMAIN hdr'.data.m) ELSE {<<>>})
    /\ UNCHANGED <<build, planerVars, planVars, quantVars, sample, stream,
                   loadedSOF, loadedAH>>

\* load_tensors(&header, file, StartOfFile)
LoadStartOfFile ==
    /\ pc = "load"
    /\ loadedSOF.status = "none"
    /\ loadedSOF' = load_tensors(hdr, key_order, stream, "StartOfFile", build)
    /\ UNCHANGED <<pc, build, planerVars, planVars, quantVars, sample, stream,
                   reader_pos, hdr, key_order, loadedAH>>

\* load_tensors(&header, &file[header.offset_end_of_header..], AfterHeader)
LoadAfterHeader ==
    /\ pc = "load"
    /\ loadedAH.status = "none"
    /\ loadedAH' = load_tensors(hdr, key_order,
                       SubSeq(stream, hdr.offset_end_of_header + 1, Len(stream)),
                       "AfterHeader", build)
    /\ UNCHANGED <<pc, build, planerVars, planVars, quantVars, sample, stream,
                   reader_pos, hdr, key_order, loadedSOF>>

NextLoad == ReadHeader \/ LoadStartOfFile \/ LoadAfterHeader

InitLoad == InitLoadFrom(TensorSamples \cup TrailingSamples)

SpecLoad == InitLoad /\ [][NextLoad]_vars

\* The same operations on the inputs that try what follows a JSON text.
InitTrailing == InitLoadFrom(TrailingSamples)

SpecTrailing == InitTrailing /\ [][NextLoad]_vars

-----------------------------------------------------------------------------
(* Claims about read_header and load_tensors.                              *)

HeaderRead == pc \in {"load", "failed"}

RegionLen == Len(sample.text) + Len(sample.garbage)

\* The sample's text is one complete JSON value (the parser accepts it when
\* nothing follows), and the stream holds the bytes its prefix declares.
CompleteValue ==
    /\ sample.text # <<>>
    /\ ParseValue(sample.text, 1).ok
    /\ ParseValue(sample.text, 1).i = Len(sample.text) + 1
    /\ ~sample.short

IsEmptyObject(v) == v.t = "obj" /\ DOMAIN v.m = {}

TrailingTolerated ==
    /\ hdr.ok
    /\ hdr.data = ParseValue(sample.text, 1).v
    /\ reader_pos = 8 + RegionLen
    /\ hdr.offset_end_of_header = 8 + RegionLen
    /\ IsEmptyObject(ParseValue(sample.text, 1).v) =>
          /\ IsEmptyObject(hdr.data)
          /\ \A r \in {loadedSOF, loadedAH} :
                r.status # "none" => r.status = "ok" /\ DOMAIN r.tensors = {}

\* C6 as claimed: whatever complete JSON value the header region begins
\* with and whatever bytes follow it inside the region, read_header
\* succeeds, returns that value, consumes 8 + L bytes and reports
\* offset_end_of_header = 8 + L; for {} load_tensors then gives an empty map.
C6_AnyValueAnyTrailingBytes ==
    (HeaderRead /\ CompleteValue) => TrailingTolerated

\* The text is a number and the next byte can continue a number.
NumberContinued ==
    /\ At(sample.text, SkipWs(sample.text, 1)) \in
          {Ch.minus} \cup (Ch.zero .. Ch.nine)
    /\ At(sample.garbage, 1) \in (Ch.zero .. Ch.nine) \cup {Ch.dot, Ch.e, Ch.E}

\* C6 amended: the same, unless the value is a number and the byte after it
\* is a digit, '.', 'e' or 'E'.
C6_TrailingDataTolerated ==
    (HeaderRead /\ CompleteValue /\ ~NumberContinued) => TrailingTolerated

\* The test's second sample with a data byte behind it: {} then three zero
\* bytes, read and loaded.
C6_Witness ==
    /\ pc = "load"
    /\ sample.text = <<Ch.lbrace, Ch.rbrace>>
    /\ sample.garbage = <<Ch.nul, Ch.nul, Ch.nul>>
    /\ sample.payload # <<>>
    /\ reader_pos = 13
    /\ loadedSOF.status = "ok"

ValidTensorEntry(info) ==
    /\ info.t = "obj"
    /\ HasField(info, S.dtype) /\ IsString(info.m[S.dtype])
    /\ HasField(info, S.shape) /\ IsUsizeVec(info.m[S.shape])
    /\ HasField(info, S.data_offsets) /\ IsUsizePair(info.m[S.data_offsets])

DeclaredOffsets(info) ==
    <<info.m[S.data_offsets].a[1].n, info.m[S.data_offsets].a[2].n>>

IsTensorKey(name) == ~(name # <<>> /\ Head(name) = Ch.underscore)

\* Position in key_order of the first entry whose end, moved by g, lies
\* beyond a buffer of length len; 0 if there is none.
FirstBeyond(g, len) ==
    LET beyond == { i \in 1..Len(key_order) :
                      /\ IsTensorKey(key_order[i])
                      /\ ValidTensorEntry(hdr.data.m[key_order[i]])
                      /\ DeclaredOffsets(hdr.data.m[key_order[i]])[2] + g > len }
    IN  IF beyond = {} THEN 0
        ELSE CHOOSE i \in beyond : \A j \in beyond : i <= j

PositionOf(name) ==
    IF \E i \in 1..Len(key_order) : key_order[i] = name
    THEN CHOOSE i \in 1..Len(key_order) : key_order[i] = name
    ELSE 0

BoundaryRejected(r, g, len) ==
    LET first == FirstBeyond(g, len)
    IN  /\ first > 0 =>
              /\ r.status = "err"
              /\ PositionOf(r.error.name) \in 1..first
              /\ r.error.name = key_order[first] =>
                    /\ r.error.kind = "OffsetsOutOfBounds"
                    /\ r.error.offsets = DeclaredOffsets(hdr.data.m[key_order[first]])
        /\ r.status = "ok" =>
              \A name \in DOMAIN r.tensors :
                  r.tensors[name].from <= r.tensors[name].to
                  /\ r.tensors[name].to <= len

\* C4: under either convention, if a valid tensor entry has end +
\* global_offset (as integers) beyond the buffer, load_tensors returns no
\* map, the first such entry it processes fails with OffsetsOutOfBounds
\* carrying its name and offsets, and no returned view leaves the buffer.
C4_BoundaryRejection ==
    (pc = "load" /\ hdr.data.t = "obj") =>
        /\ loadedSOF.status # "none" =>
              BoundaryRejected(loadedSOF, hdr.offset_end_of_header, Len(stream))
        /\ loadedAH.status # "none" =>
              BoundaryRejected(loadedAH, 0, Len(stream) - hdr.offset_end_of_header)

\* Two members of the sample are tensor entries under one name.
DuplicatedNames ==
    { sample.members[i].name : i \in
        { i \in 1..Len(sample.members) :
            /\ IsTensorKey(sample.members[i].name)
            /\ sample.members[i].entry.k = "tensor"
            /\ \E j \in 1..Len(sample.members) :
                  /\ j # i
                  /\ sample.members[j].name = sample.members[i].name
                  /\ sample.members[j].entry.k = "tensor" } }

\* Every member of the sample is a tensor entry inside the data region.
AllMembersLoadable ==
    \A i \in 1..Len(sample.members) :
        LET e == sample.members[i].entry
        IN  /\ e.k = "tensor"
            /\ ~e.off[1].wrap /\ ~e.off[2].wrap
            /\ e.off[1].d <= e.off[2].d /\ e.off[2].d <= PayloadLen

\* C5: header bytes with two tensor entries of one name (and nothing else
\* wrong with them) make read_header then load_tensors fail with
\* DuplicateTensorName(name); no map comes back.
C5_DuplicateRejected ==
    (loadedSOF.status # "none" /\ DuplicatedNames # {} /\ AllMembersLoadable) =>
        /\ loadedSOF.status = "err"
        /\ loadedSOF.error.kind = "DuplicateTensorName"
        /\ loadedSOF.error.name \in DuplicatedNames

\* C9: with the whole file under StartOfFile and the file from the header's
\* end under AfterHeader, load_tensors ends the same way: the same error
\* for the same tensor, or the same names with the same dtype, shape and
\* bytes, taken from file positions [end of header + start, end of header +
\* end).
C9_ConventionsAgree ==
    (loadedSOF.status # "none" /\ loadedAH.status # "none") =>
        /\ loadedSOF.status = loadedAH.status
        /\ loadedSOF.status # "panic"
        /\ loadedSOF.error = loadedAH.error
        /\ DOMAIN loadedSOF.tensors = DOMAIN loadedAH.tensors
        /\ \A name \in DOMAIN loadedSOF.tensors :
              LET x == loadedSOF.tensors[name]
                  y == loadedAH.tensors[name]
                  offs == DeclaredOffsets(hdr.data.m[name])
              IN  /\ x.dtype = y.dtype /\ x.shape = y.shape /\ x.data = y.data
                  /\ x.from = hdr.offset_end_of_header + offs[1]
                  /\ x.to = hdr.offset_end_of_header + offs[2]
                  /\ y.from = offs[1] /\ y.to = offs[2]

-----------------------------------------------------------------------------
(* main.rs: do_quantize.                                                   *)

Treatments == {"keep", "q4_0", "q4_1", "q5_0", "q5_1", "q8_0"}

\* The dtype tag and the alignment a quantizing treatment's arm returns.
quantized_tag(treatment) ==
    CASE treatment = "q4_0" -> S.q4_0
      [] treatment = "q4_1" -> S.q4_1
      [] treatment = "q8_0" -> S.q8_0
      [] treatment = "q5_0" -> S.q5_0
      [] treatment = "q5_1" -> S.q5_1

quantized_alignment(treatment) ==
    IF treatment \in {"q4_0", "q4_1", "q8_0"} THEN 4 ELSE 2

plan_lookup_or_default(k) ==
    IF k \in DOMAIN plan.catalog THEN Option(plan.catalog[k])
    ELSE Option(DefaultQuantizeInfo)

\* plan.catalog.get(&k)
plan_lookup(k) ==
    IF k \in DOMAIN plan.catalog THEN Option(plan.catalog[k]) ELSE None

\* shape.iter().find(|&&x| x != 1): whether there is such a dimension.
HasBlockingDim(shape) == \E i \in 1..Len(shape) : shape[i] # 1

\* json!({ "dtype": dtype, "shape": shape, "offsets": offsets })
header_entry(dtype, shape, offsets) ==
    JObj((S.dtype :> JStr(dtype))
         @@ (S.shape :> JArr([i \in 1..Len(shape) |-> JNum(shape[i])]))
         @@ (S.offsets :> JArr(<<JNum(offsets[1]), JNum(offsets[2])>>)))

\* serde_json::to_value(metadata): a map of strings.
metadata_value(metadata) ==
    JObj([key \in DOMAIN metadata |-> JStr(metadata[key])])

padded_header_without_padding(h) == to_le_bytes(Len(h)) \o h

\* The three write_all calls after File::create: the length prefix, the
\* header text, the zero padding.
padded_header(h) ==
    LET header_len == next_multiple_of(Len(h), 8)
        padding == header_len - Len(h)
    IN  to_le_bytes(header_len) \o h \o Zeros(padding)

QuantizeNames == {TensorName(1), S.bc}

KeysOf(pop) == { QuantizeKey(pop[name]) : name \in DOMAIN pop }

\* Plans: a treatment for some of the input's shape classes.  Entries for
\* other classes are never looked up.
PlansFor(pop) ==
    [metadata : Metadatas,
     catalog : UNION { [ks -> [count : {1}, treatment : Treatments]] :
                         ks \in SUBSET KeysOf(pop) }]

InitQuantize ==
    /\ pc = "quantize_start"
    /\ build \in {"debug", "release"}
    /\ population \in Populations(QuantizeNames)
    /\ todo = DOMAIN population
    /\ catalog = <<>>
    /\ plan \in PlansFor(population)
    /\ out = <<>>
    /\ err = ""
    /\ header = <<>>
    /\ file = [created |-> FALSE, bytes |-> <<>>, entries |-> 0]
    /\ PlanerInit /\ NoLoadInit

\* The plan's metadata goes into `out` and the planner is created.
begin_quantize ==
    /\ pc = "quantize_start"
    /\ out' = IF plan.metadata.some
              THEN (S.metadata :> metadata_value(plan.metadata.val))
              ELSE <<>>
    /\ pc' = "quantize_loop"
    /\ UNCHANGED <<build, planerVars, planVars, plan, err, header, file, loadVars>>

quantize_fails(why) ==
    /\ pc' = "failed"
    /\ err' = why
    /\ UNCHANGED <<planerVars, out>>

quantize_plans(name, dtype, alignment, data) ==
    /\ plan_write(alignment, data)
    /\ out' = MapInsert(out, name,
                  header_entry(dtype, population[name].shape,
                      <<next_multiple_of(free_offset, alignment),
                        next_multiple_of(free_offset, alignment) + Len(data)>>))
    /\ UNCHANGED <<pc, err>>

\* One iteration of `for (name, tensor) in tensors.tensors()`, in whatever
\* order the container gives.  The quantizing kernel is external: it fills
\* some prefix of the work buffer (n_elem * 4 bytes) and returns its length.
quantize_tensor ==
    /\ pc = "quantize_loop"
    /\ \E name \in todo :
          LET tensor == population[name]
              alignment_and_unit_size == dtype_size(tensor.dtype)
              found == plan_lookup(QuantizeKey(tensor))
              treatment == found.val.treatment
              n_elem == Len(tensor.data) \div alignment_and_unit_size
          IN  /\ todo' = todo \ {name}
              /\ IF ~found.some
                 THEN quantize_fails("treatment of tensor type not described in plan")
                 ELSE IF treatment = "keep"
                 THEN quantize_plans(name, dtype_str(tensor.dtype),
                                     alignment_and_unit_size, tensor.data)
                 ELSE IF tensor.dtype # "F32"
                 THEN quantize_fails("only F32 tensors can be quantized")
                 ELSE IF Len(tensor.data) % alignment_and_unit_size # 0
                 THEN quantize_fails("data.len() % alignment_and_unit_size == 0")
                 ELSE IF ~HasBlockingDim(tensor.shape)
                 THEN quantize_fails("tensor has no dim that != 1")
                 ELSE \E cur_size \in 0..(n_elem * 4) :
                         quantize_plans(name, quantized_tag(treatment),
                                        quantized_alignment(treatment),
                                        [i \in 1..cur_size |-> 81])
    /\ UNCHANGED <<build, population, catalog, plan, header, file, loadVars>>

\* File::create(args.model_out) and serde_json::to_vec(&out), once the loop
\* has run through.
create_output ==
    /\ pc = "quantize_loop"
    /\ todo = {}
    /\ file' = [file EXCEPT !.created = TRUE]
    /\ header' = ToJson(JObj(out))
    /\ pc' = "write_header"
    /\ UNCHANGED <<build, planerVars, planVars, plan, out, err, loadVars>>

write_header ==
    /\ pc = "write_header"
    /\ file' = [file EXCEPT !.bytes = padded_header(header)]
    /\ pc' = "write_tensors"
    /\ UNCHANGED <<build, planerVars, planVars, plan, out, err, header, loadVars>>

\* One iteration of `for a in write_plan.tensors`.
write_tensor ==
    /\ pc = "write_tensors"
    /\ file.entries < Len(tensors)
    /\ file' = [file EXCEPT
                  !.bytes = @ \o write_tensor_bytes(tensors[file.entries + 1]),
                  !.entries = @ + 1]
    /\ UNCHANGED <<pc, build, planerVars, planVars, plan, out, err, header, loadVars>>

\* Ok(()): the file is complete; it is then opened by a reader.
finish_output ==
    /\ pc = "write_tensors"
    /\ file.entries = Len(tensors)
    /\ pc' = "read"
    /\ stream' = file.bytes
    /\ UNCHANGED <<build, planerVars, planVars, quantVars, sample, reader_pos,
                   hdr, key_order, loadedSOF, loadedAH>>

NextQuantize ==
    \/ begin_quantize
    \/ quantize_tensor
    \/ create_output
    \/ write_header
    \/ write_tensor
    \/ finish_output
    \/ ReadHeader
    \/ LoadStartOfFile
    \/ LoadAfterHeader

SpecQuantize == InitQuantize /\ [][NextQuantize]_vars

-----------------------------------------------------------------------------
(* Claims about do_quantize.                                               *)

HeaderWritten == pc \in {"write_tensors", "read", "load"}
OutputComplete == pc \in {"read", "load"}

RECURSIVE AllZero(_)
AllZero(bytes) == bytes = <<>> \/ (Head(bytes) = 0 /\ AllZero(Tail(bytes)))

\* C3: the length prefix L of the written file is the smallest multiple of
\* 8 that is at least the header text's length n; the text follows the
\* prefix, then L - n zero bytes, and the data region starts right after
\* these L bytes.
C3_HeaderPadding ==
    HeaderWritten =>
        LET n == Len(header)
            L == from_le_bytes(SubSeq(file.bytes, 1, 8))
        IN  /\ Len(file.bytes) >= 8 + L
            /\ L % 8 = 0 /\ L >= n /\ L - n < 8
            /\ SubSeq(file.bytes, 9, 8 + n) = header
            /\ AllZero(SubSeq(file.bytes, 8 + n + 1, 8 + L))
            /\ file.entries = 0 => Len(file.bytes) = 8 + L
            /\ OutputComplete =>
                  SubSeq(file.bytes, 8 + L + 1, Len(file.bytes)) = DataRegion(tensors)

\* A complete file with zero bytes behind the header text and a tensor
\* behind them.
C3_Witness ==
    /\ OutputComplete
    /\ Len(header) % 8 # 0
    /\ Len(tensors) > 0 /\ tensors[1].data # <<>>

\* A tensor that must stop the run: its class is not in the plan, or its
\* treatment quantizes and it is not F32, its length is no multiple of the
\* unit size, or every dimension is 1.
FailsValidation(name) ==
    LET t == population[name]
        k == [dtype |-> dtype_str(t.dtype), shape |-> t.shape]
    IN  \/ k \notin DOMAIN plan.catalog
        \/ /\ plan.catalog[k].treatment # "keep"
           /\ \/ t.dtype # "F32"
              \/ Len(t.data) % dtype_size(t.dtype) # 0
              \/ \A i \in 1..Len(t.shape) : t.shape[i] = 1

NothingWritten == ~file.created /\ file.bytes = <<>>

\* C8: if some input tensor fails lookup or a precondition, the run never
\* gets past the loop (it is still visiting tensors, or has ended with an
\* error) and the output file is neither created nor written; a failed run
\* has written nothing; and output exists only once every tensor was
\* visited and none fails validation.
C8_NoOutputOnFailure ==
    /\ (\E name \in DOMAIN population : FailsValidation(name)) =>
          /\ pc \in {"quantize_start", "quantize_loop", "failed"}
          /\ (pc = "quantize_loop" => todo # {})
          /\ NothingWritten
    /\ pc = "failed" => err # "" /\ NothingWritten
    /\ ~NothingWritten =>
          /\ todo = {}
          /\ \A name \in DOMAIN population : ~FailsValidation(name)

\* A run that planned one tensor and then failed on a class the plan does
\* not describe.
C8_Witness ==
    /\ pc = "failed"
    /\ err = "treatment of tensor type not described in plan"
    /\ Len(tensors) = 1
    /\ NothingWritten

AllKeep ==
    \A name \in DOMAIN population :
        LET k == [dtype |-> dtype_str(population[name].dtype),
                  shape |-> population[name].shape]
        IN  k \in DOMAIN plan.catalog /\ plan.catalog[k].treatment = "keep"

AllWellFormed == \A name \in DOMAIN population : WellFormed(population[name])

\* C2: when the plan keeps every class, the written file read back with
\* read_header and load_tensors (StartOfFile) gives the supplied tensors:
\* the same names, each with the same dtype, shape and bytes.
C2_RoundTrip ==
    (AllKeep /\ AllWellFormed /\ OutputComplete) =>
        /\ pc = "load" => hdr.ok
        /\ loadedSOF.status # "none" =>
              /\ loadedSOF.status = "ok"
              /\ DOMAIN loadedSOF.tensors = DOMAIN population
              /\ \A name \in DOMAIN population :
                    /\ loadedSOF.tensors[name].dtype = dtype_str(population[name].dtype)
                    /\ loadedSOF.tensors[name].shape = population[name].shape
                    /\ loadedSOF.tensors[name].data = population[name].data

=============================================================================
